---- MODULE Spec2Model ----
(***************************************************************************)
(* ezdxf.math.polyline: ConstructionPolyline (measure, interpolate and     *)
(* divide a polyline by arc length) and ApproxParamT (distance <->         *)
(* parameter approximation of a sampled curve).                            *)
(*                                                                         *)
(* Numbers.  The code computes in floats; the model computes the same      *)
(* expressions in exact rational arithmetic, a rational being a pair       *)
(* <<numerator, denominator>> in lowest terms with a positive denominator. *)
(* Rounding is therefore not modelled.  The unit of length is 1e-12, so    *)
(* that the two absolute thresholds of the code (abs_tol of Vec3.isclose   *)
(* and the d0 test of param_t) are the rational 1.                         *)
(*                                                                         *)
(* Points.  A Vec3 is a pair <<x, y>> of rationals (z = 0).  Vertices are  *)
(* drawn from point sets whose mutual distances are whole numbers, so that *)
(* Vec3.magnitude is exact.                                                *)
(***************************************************************************)
EXTENDS Integers, Sequences, FiniteSets, TLC

(***************************************************************************)
(* Bounds of the model.                                                    *)
(***************************************************************************)
\* Largest number of vertices handed to ConstructionPolyline().
MaxLen == 3
\* Largest count handed to divide().
MaxCount == 4
\* Largest number of segments of an ApproxParamT.
MaxSegments == 3

(***************************************************************************)
(* Exact rational arithmetic (stands for Python's float).                  *)
(***************************************************************************)
Abs(n) == IF n < 0 THEN -n ELSE n

RECURSIVE GCD(_, _)
GCD(a, b) == IF b = 0 THEN a ELSE GCD(b, a % b)

Norm(n, d) ==
    LET s == IF d < 0 THEN -1 ELSE 1
        g == GCD(Abs(n), Abs(d))
    IN  <<(s * n) \div g, (s * d) \div g>>

I(k) == <<k, 1>>
Zero == <<0, 1>>
RAdd(a, b) == Norm(a[1] * b[2] + b[1] * a[2], a[2] * b[2])
RSub(a, b) == Norm(a[1] * b[2] - b[1] * a[2], a[2] * b[2])
RMul(a, b) == Norm(a[1] * b[1], a[2] * b[2])
\* b is never zero where the model divides: the code's guards are modelled.
RDiv(a, b) == Norm(a[1] * b[2], a[2] * b[1])
RLt(a, b) == a[1] * b[2] < b[1] * a[2]
RLe(a, b) == a[1] * b[2] <= b[1] * a[2]
RAbs(a) == <<Abs(a[1]), a[2]>>
RMax(a, b) == IF RLt(a, b) THEN b ELSE a
RMin(a, b) == IF RLt(b, a) THEN b ELSE a
\* int(x) of a float x >= 0, and math.floor in general.
Floor(a) == a[1] \div a[2]

(***************************************************************************)
(* Program constants.                                                      *)
(***************************************************************************)
\* REL_TOL = 1e-9: a relative tolerance below the resolution of every
\* coordinate the model computes (denominators stay far below 1000).
REL_TOL == <<1, 1000>>
\* abs_tol = 1e-12 of Vec3.isclose: one unit of length.
ABS_TOL == <<1, 1>>
\* The literal 1e-12 of param_t's "if d0 > 1e-12": one unit of length.
D0_MIN == <<1, 1>>

(***************************************************************************)
(* Vec3: the geometry primitives the polyline uses.                        *)
(***************************************************************************)
Vec3(x, y) == <<I(x), I(y)>>
NULLVEC == Vec3(0, 0)
VSub(a, b) == <<RSub(a[1], b[1]), RSub(a[2], b[2])>>

\* The integer square root; exact for every vector the model measures.
Isqrt(n) == CHOOSE r \in 0..n : r * r <= n /\ (r + 1) * (r + 1) > n

\* Vec3.magnitude of a vector with whole components.
magnitude(v) == I(Isqrt(v[1][1] * v[1][1] + v[2][1] * v[2][1]))

\* Vec3.lerp: self + (other - self) * factor
lerp(a, b, factor) ==
    <<RAdd(a[1], RMul(RSub(b[1], a[1]), factor)),
      RAdd(a[2], RMul(RSub(b[2], a[2]), factor))>>

\* math.isclose(a, b, rel_tol=, abs_tol=)
math_isclose(a, b, rel, abs) ==
    RLe(RAbs(RSub(a, b)), RMax(RMul(rel, RMax(RAbs(a), RAbs(b))), abs))

\* Vec3.isclose(other, rel_tol=): every component is close.
isclose(a, b, rel) ==
    /\ math_isclose(a[1], b[1], rel, ABS_TOL)
    /\ math_isclose(a[2], b[2], rel, ABS_TOL)

\* linspace(start, stop, num) for num >= 2: num evenly spaced values, both
\* ends included.
linspace(start, stop, num) ==
    [k \in 1..num |->
        RAdd(start, RDiv(RMul(I(k - 1), RSub(stop, start)), I(num - 1)))]

(***************************************************************************)
(* ConstructionPolyline                                                    *)
(***************************************************************************)
\* Mutant of _distances: the first vertex is not special-cased, so its
\* distance is measured from prev_vertex = Vec3(), the origin.
RECURSIVE DistancesLoopFromOrigin(_, _, _, _)
DistancesLoopFromOrigin(vs, i, current_station, distances) ==
    IF i > Len(vs) THEN distances
    ELSE LET station == RAdd(current_station,
                             magnitude(VSub(vs[i], IF i = 1 THEN NULLVEC ELSE vs[i - 1])))
         IN  DistancesLoopFromOrigin(vs, i + 1, station, Append(distances, station))

_distances_from_origin(vs) == DistancesLoopFromOrigin(vs, 1, Zero, <<>>)

RECURSIVE DistancesLoop(_, _, _, _, _)
DistancesLoop(vs, i, current_station, distances, prev_vertex) ==
    IF i > Len(vs) THEN distances
    ELSE IF distances # <<>>
         THEN LET station == RAdd(current_station,
                                  magnitude(VSub(vs[i], prev_vertex)))
              IN  DistancesLoop(vs, i + 1, station,
                                Append(distances, station), vs[i])
         ELSE DistancesLoop(vs, i + 1, current_station,
                            Append(distances, current_station), vs[i])

\* _distances(vertices): the distance from the start vertex to each vertex.
_distances(vs) == DistancesLoop(vs, 1, Zero, <<>>, NULLVEC)

\* Mutant of __init__: close appends the first vertex without testing
\* whether the polyline is closed already.
ConstructionPolyline_always_append(vs, close, rel) ==
    LET v3list == IF close /\ Len(vs) > 2 THEN Append(vs, vs[1]) ELSE vs
    IN  [vertices |-> v3list, distances |-> _distances(v3list), rel_tol |-> rel]

\* ConstructionPolyline.__init__
ConstructionPolyline(vs, close, rel) ==
    LET v3list ==
            IF close /\ Len(vs) > 2 /\ ~isclose(vs[1], vs[Len(vs)], rel)
            THEN Append(vs, vs[1])
            ELSE vs
    IN  [vertices |-> v3list, distances |-> _distances(v3list), rel_tol |-> rel]

\* ConstructionPolyline.__len__
len(self) == Len(self.vertices)

\* ConstructionPolyline.length
length(self) ==
    IF self.distances # <<>> THEN self.distances[Len(self.distances)] ELSE Zero

\* ConstructionPolyline.is_closed
is_closed(self) ==
    IF Len(self.vertices) > 2
    THEN isclose(self.vertices[1], self.vertices[Len(self.vertices)], self.rel_tol)
    ELSE FALSE

\* ConstructionPolyline.__getitem__ with a slice start:stop (0 <= start <=
\* stop <= len): a new polyline over a copy of the vertices.  Python's
\* indices are 0-based, the model's sequences 1-based.
getitem_slice(self, start, stop) ==
    ConstructionPolyline(SubSeq(self.vertices, start + 1, stop), FALSE, self.rel_tol)

\* seq[i] of a Python list: the model's sequences are 1-based.
At(seq, i) == seq[i + 1]

\* The outcome of a call that returns a station or raises.
Raise(e) == [err |-> e, pt |-> NULLVEC, index0 |-> 0, index1 |-> 0, walked |-> 0]

\* ConstructionPolyline.data(index), for index >= 0
data(self, index) ==
    IF self.vertices = <<>>
    THEN [err |-> "ValueError", station |-> Zero, d0 |-> Zero]
    ELSE IF index = 0
    THEN [err |-> "", station |-> Zero, d0 |-> Zero]
    ELSE IF index >= Len(self.distances)
    THEN [err |-> "IndexError", station |-> Zero, d0 |-> Zero]
    ELSE [err |-> "",
          station |-> At(self.distances, index),
          d0 |-> RSub(At(self.distances, index), At(self.distances, index - 1))]

\* bisect.bisect_left(a, x, lo=0, hi=len(a)): the binary search of the
\* standard library.
RECURSIVE BisectLoop(_, _, _, _)
BisectLoop(a, x, lo, hi) ==
    IF lo < hi
    THEN LET mid == (lo + hi) \div 2
         IN  IF RLt(At(a, mid), x)
             THEN BisectLoop(a, x, mid + 1, hi)
             ELSE BisectLoop(a, x, lo, mid)
    ELSE lo

bisect_left(a, x) == BisectLoop(a, x, 0, Len(a))

\* Mutant of _index_at: bisect_right in place of bisect_left.
RECURSIVE BisectRightLoop(_, _, _, _)
BisectRightLoop(a, x, lo, hi) ==
    IF lo < hi
    THEN LET mid == (lo + hi) \div 2
         IN  IF RLt(x, At(a, mid))
             THEN BisectRightLoop(a, x, lo, mid)
             ELSE BisectRightLoop(a, x, mid + 1, hi)
    ELSE lo

_index_at_right(self, distance) ==
    BisectRightLoop(self.distances, distance, 0, Len(self.distances))

\* ConstructionPolyline._index_at: fast method without any checks
_index_at(self, distance) == bisect_left(self.distances, distance)

\* Mutant of index_at: the clamping to 0 and to the last index is missing.
index_at_unclamped(self, distance) == _index_at(self, distance)

\* ConstructionPolyline.index_at
index_at(self, distance) ==
    IF RLe(distance, Zero) THEN 0
    ELSE IF RLe(length(self), distance)
    THEN (IF len(self) - 1 > 0 THEN len(self) - 1 ELSE 0)
    ELSE _index_at(self, distance)

\* "skip coincident vertices": the while loop of _vertex_at; returns the
\* index0 it stops at.
RECURSIVE SkipCoincident(_, _, _)
SkipCoincident(distances, index0, distance1) ==
    IF index0 > 0 /\ At(distances, index0) = distance1
    THEN SkipCoincident(distances, index0 - 1, distance1)
    ELSE index0

\* Mutant of _vertex_at: the factor is taken against distance1 instead of
\* the length distance1 - distance0 of the bracket.
_vertex_at_wrong_factor(self, distance) ==
    LET vertices == self.vertices
        distances == self.distances
        index1 == _index_at(self, distance)
    IN  IF index1 = 0
        THEN IF vertices = <<>> THEN Raise("IndexError")
             ELSE [err |-> "", pt |-> At(vertices, 0),
                   index0 |-> 0, index1 |-> 0, walked |-> 0]
        ELSE IF index1 >= Len(distances) THEN Raise("IndexError")
        ELSE LET distance1 == At(distances, index1)
                 index0 == SkipCoincident(distances, index1 - 1, distance1)
                 distance0 == At(distances, index0)
             IN  IF distance0 = distance1 THEN Raise("ArithmeticError")
                 ELSE LET factor == RDiv(RSub(distance, distance0), distance1)
                      IN  [err |-> "",
                           pt |-> lerp(At(vertices, index0),
                                       At(vertices, index1), factor),
                           index0 |-> index0, index1 |-> index1,
                           walked |-> (index1 - 1) - index0]

\* ConstructionPolyline._vertex_at: fast method without any checks.  The
\* outcome records the bracket the interpolation used: index1, the index0
\* the skip loop stopped at, and how many vertices it walked back.
_vertex_at(self, distance) ==
    LET vertices == self.vertices
        distances == self.distances
        index1 == _index_at(self, distance)
    IN  IF index1 = 0
        THEN IF vertices = <<>> THEN Raise("IndexError")
             ELSE [err |-> "", pt |-> At(vertices, 0),
                   index0 |-> 0, index1 |-> 0, walked |-> 0]
        ELSE IF index1 >= Len(distances) THEN Raise("IndexError")
        ELSE LET distance1 == At(distances, index1)
                 index0 == SkipCoincident(distances, index1 - 1, distance1)
                 distance0 == At(distances, index0)
             IN  IF distance0 = distance1 THEN Raise("ArithmeticError")
                 ELSE LET factor == RDiv(RSub(distance, distance0),
                                         RSub(distance1, distance0))
                      IN  [err |-> "",
                           pt |-> lerp(At(vertices, index0),
                                       At(vertices, index1), factor),
                           index0 |-> index0, index1 |-> index1,
                           walked |-> (index1 - 1) - index0]

\* ConstructionPolyline.vertex_at
vertex_at(self, distance) ==
    IF RLt(distance, Zero) \/ RLt(length(self), distance)
    THEN Raise("ValueError")
    ELSE IF Len(self.vertices) < 2 THEN Raise("ValueError: not enough vertices")
    ELSE _vertex_at(self, distance)

\* What a generator did when it is run to its end: the points it yielded,
\* the error that ended it ("" when it returned), and for every call of
\* _vertex_at the distance asked and the bracket used.
Gen(e, pts, tr) == [err |-> e, out |-> pts, trace |-> tr]

Traced(distance, r) ==
    [d |-> distance, err |-> r.err, index0 |-> r.index0, index1 |-> r.index1,
     walked |-> r.walked]

\* The for loop of divide over the distances ds, from its k-th pass on.
RECURSIVE DivideLoop(_, _, _, _, _)
DivideLoop(self, ds, k, pts, tr) ==
    IF k > Len(ds) THEN Gen("", pts, tr)
    ELSE LET r == _vertex_at(self, ds[k])
             tr1 == Append(tr, Traced(ds[k], r))
         IN  IF r.err # "" THEN Gen(r.err, pts, tr1)
             ELSE DivideLoop(self, ds, k + 1, Append(pts, r.pt), tr1)

\* Mutant of divide: the distances leave out the end point, as
\* linspace(..., endpoint=False) would.
divide_without_endpoint(self, count) ==
    IF count < 2 THEN Gen("ValueError", <<>>, <<>>)
    ELSE DivideLoop(self,
                    SubSeq(linspace(Zero, length(self), count + 1), 1, count),
                    1, <<>>, <<>>)

\* list(ConstructionPolyline.divide(count))
divide(self, count) ==
    IF count < 2 THEN Gen("ValueError", <<>>, <<>>)
    ELSE DivideLoop(self, linspace(Zero, length(self), count), 1, <<>>, <<>>)

\* The while loop of divide_by_length, and the force_last step after it.
RECURSIVE DivideByLengthLoop(_, _, _, _, _, _, _)
DivideByLengthLoop(self, step, force_last, distance, vertex, pts, tr) ==
    IF RLe(distance, length(self))
    THEN LET r == _vertex_at(self, distance)
             tr1 == Append(tr, Traced(distance, r))
         IN  IF r.err # "" THEN Gen(r.err, pts, tr1)
             ELSE DivideByLengthLoop(self, step, force_last,
                                     RAdd(distance, step), r.pt,
                                     Append(pts, r.pt), tr1)
    ELSE IF force_last
            /\ ~isclose(vertex, At(self.vertices, Len(self.vertices) - 1), REL_TOL)
         THEN Gen("", Append(pts, At(self.vertices, Len(self.vertices) - 1)), tr)
         ELSE Gen("", pts, tr)

\* Mutant of divide_by_length: force_last is ignored.
divide_by_length_never_forced(self, step, force_last) ==
    IF RLe(step, Zero) THEN Gen("ValueError", <<>>, <<>>)
    ELSE IF Len(self.vertices) < 2
    THEN Gen("ValueError: not enough vertices", <<>>, <<>>)
    ELSE DivideByLengthLoop(self, step, FALSE, Zero, NULLVEC, <<>>, <<>>)

\* list(ConstructionPolyline.divide_by_length(length, force_last))
divide_by_length(self, step, force_last) ==
    IF RLe(step, Zero) THEN Gen("ValueError", <<>>, <<>>)
    ELSE IF Len(self.vertices) < 2
    THEN Gen("ValueError: not enough vertices", <<>>, <<>>)
    ELSE DivideByLengthLoop(self, step, force_last, Zero, NULLVEC, <<>>, <<>>)

(***************************************************************************)
(* ApproxParamT                                                            *)
(***************************************************************************)
\* ApproxParamT.__init__.  The curve is used only here, through
\* curve.point(t) at the segments + 1 evenly spaced parameters: curve[k] is
\* the point it returns at the k-th of them.
ApproxParamT(curve, max_t, segments) ==
    [polyline |-> ConstructionPolyline([k \in 1..(segments + 1) |-> curve[k]],
                                       FALSE, REL_TOL),
     max_t |-> max_t,
     step |-> RDiv(max_t, I(segments))]

\* Mutant of param_t: the linear correction is added instead of subtracted.
param_t_correction_added(self, dist) ==
    LET poly_ == self.polyline
    IN  IF RLe(length(poly_), dist) THEN [err |-> "", val |-> self.max_t]
        ELSE LET t_step == self.step
                 i == index_at(poly_, dist)
                 sd == data(poly_, i)
                 t0 == RMul(t_step, I(i))
                 t == IF RLt(D0_MIN, sd.d0)
                      THEN RAdd(t0, RDiv(RMul(t_step, RSub(sd.station, dist)), sd.d0))
                      ELSE t0
             IN  IF sd.err # "" THEN [err |-> sd.err, val |-> Zero]
                 ELSE [err |-> "", val |-> RMin(self.max_t, t)]

\* ApproxParamT.param_t
param_t(self, dist) ==
    LET poly_ == self.polyline
    IN  IF RLe(length(poly_), dist) THEN [err |-> "", val |-> self.max_t]
        ELSE LET t_step == self.step
                 i == index_at(poly_, dist)
                 sd == data(poly_, i)
                 t0 == RMul(t_step, I(i))
                 t == IF RLt(D0_MIN, sd.d0)
                      THEN RSub(t0, RDiv(RMul(t_step, RSub(sd.station, dist)), sd.d0))
                      ELSE t0
             IN  IF sd.err # "" THEN [err |-> sd.err, val |-> Zero]
                 ELSE [err |-> "", val |-> RMin(self.max_t, t)]

\* Mutant of distance: the linear correction is added instead of subtracted.
distance_correction_added(self, t) ==
    IF RLe(t, Zero) THEN [err |-> "", val |-> Zero]
    ELSE IF RLe(self.max_t, t) THEN [err |-> "", val |-> length(self.polyline)]
    ELSE LET step_ == self.step
             index == Floor(RDiv(t, step_)) + 1
             sd == data(self.polyline, index)
         IN  IF sd.err # "" THEN [err |-> sd.err, val |-> Zero]
             ELSE [err |-> "",
                   val |-> RAdd(sd.station,
                                RDiv(RMul(sd.d0, RSub(RMul(step_, I(index)), t)),
                                     step_))]

\* ApproxParamT.distance
distance(self, t) ==
    IF RLe(t, Zero) THEN [err |-> "", val |-> Zero]
    ELSE IF RLe(self.max_t, t) THEN [err |-> "", val |-> length(self.polyline)]
    ELSE LET step_ == self.step
             index == Floor(RDiv(t, step_)) + 1
             sd == data(self.polyline, index)
         IN  IF sd.err # "" THEN [err |-> sd.err, val |-> Zero]
             ELSE [err |-> "",
                   val |-> RSub(sd.station,
                                RDiv(RMul(sd.d0, RSub(RMul(step_, I(index)), t)),
                                     step_))]

(***************************************************************************)
(* The state: one polyline (or one approximator), the last call made on it *)
(* and what the call returned.                                             *)
(***************************************************************************)
VARIABLES
    input,   \* the arguments the object was constructed from
    poly,    \* the ConstructionPolyline: _vertices, _distances, _rel_tol
    approx,  \* the ApproxParamT: _polyline, _max_t, _step
    call,    \* the last call: its name and arguments
    prev,    \* the call before it, with the value it returned
    res,     \* what the last call returned, yielded or raised
    sub      \* the polyline the last slice returned

vars == <<input, poly, approx, call, prev, res, sub>>

\* Vertices of polylines: a 3-4-5 triangle.
Points == {Vec3(0, 0), Vec3(3, 0), Vec3(3, 4)}
\* Sample points of curves: collinear, 1, 2 and 3 units apart.
CurvePoints == {Vec3(0, 0), Vec3(1, 0), Vec3(3, 0)}
\* rel_tol arguments: the default, and one so large that all vertices are close.
RelTols == {REL_TOL, I(1)}
\* max_t arguments.
MaxTs == {I(1), I(3)}

SeqsUpTo(S, lo, hi) == UNION {[1..n -> S] : n \in lo..hi}

\* Queried distances: every half unit from below 0 to beyond the length.
Halves(len_) == {Norm(k, 2) : k \in (-1)..(2 * Floor(len_) + 1)}
\* step lengths of divide_by_length, invalid ones included.
Steps == {Norm(k, 2) : k \in {-1, 0, 1, 2, 5, 6, 14}}
\* Queried parameters: every quarter step from below 0 to beyond max_t.
Params(a) ==
    {RDiv(RMul(a.step, I(k)), I(4)) :
        k \in (-1)..(4 * Floor(RDiv(a.max_t, a.step)) + 1)}

Call(name, d, n, flag) == [name |-> name, d |-> d, n |-> n, flag |-> flag]
NoCall == Call("", Zero, 0, FALSE)
NoPrev == [name |-> "", d |-> Zero, ret |-> Zero]
Res(e, out, trace, idx, ret) ==
    [err |-> e, out |-> out, trace |-> trace, idx |-> idx, ret |-> ret]
NoRes == Res("", <<>>, <<>>, 0, Zero)
EmptyPolyline == ConstructionPolyline(<<>>, FALSE, REL_TOL)
NoApprox == [polyline |-> EmptyPolyline, max_t |-> Zero, step |-> Zero]
NoInput == [vertices |-> <<>>, close |-> FALSE, rel_tol |-> REL_TOL,
            max_t |-> Zero, segments |-> 0]

(***************************************************************************)
(* Spec: a ConstructionPolyline and the calls on it.                       *)
(***************************************************************************)
Init ==
    \E vs \in SeqsUpTo(Points, 0, MaxLen), close \in BOOLEAN, rel \in RelTols :
        /\ input = [vertices |-> vs, close |-> close, rel_tol |-> rel,
                    max_t |-> Zero, segments |-> 0]
        /\ poly = ConstructionPolyline(vs, close, rel)
        /\ approx = NoApprox
        /\ call = NoCall
        /\ prev = NoPrev
        /\ res = NoRes
        /\ sub = EmptyPolyline

\* No call is under way: the caller has taken the last result.
Idle == call.name = ""

\* The caller takes what the call returned and drops it; the object, which
\* no call changes, is ready for the next call.
Return ==
    /\ ~Idle
    /\ call' = NoCall
    /\ prev' = NoPrev
    /\ res' = NoRes
    /\ sub' = EmptyPolyline
    /\ UNCHANGED <<input, poly, approx>>

IndexAt ==
    \E d \in Halves(length(poly)) :
        /\ Idle
        /\ call' = Call("index_at", d, 0, FALSE)
        /\ res' = Res("", <<>>, <<>>, index_at(poly, d), Zero)
        /\ UNCHANGED <<input, poly, approx, prev, sub>>

VertexAt ==
    \E d \in Halves(length(poly)) :
        LET r == vertex_at(poly, d)
        IN  /\ Idle
            /\ call' = Call("vertex_at", d, 0, FALSE)
            /\ res' = Res(r.err,
                          IF r.err = "" THEN <<r.pt>> ELSE <<>>,
                          IF r.err \in {"ValueError", "ValueError: not enough vertices"}
                          THEN <<>> ELSE <<Traced(d, r)>>,
                          0, Zero)
            /\ UNCHANGED <<input, poly, approx, prev, sub>>

Divide ==
    \E count \in 0..MaxCount :
        LET g == divide(poly, count)
        IN  /\ Idle
            /\ call' = Call("divide", Zero, count, FALSE)
            /\ res' = Res(g.err, g.out, g.trace, 0, Zero)
            /\ UNCHANGED <<input, poly, approx, prev, sub>>

DivideByLength ==
    \E step \in Steps, force_last \in BOOLEAN :
        LET g == divide_by_length(poly, step, force_last)
        IN  /\ Idle
            /\ call' = Call("divide_by_length", step, 0, force_last)
            /\ res' = Res(g.err, g.out, g.trace, 0, Zero)
            /\ UNCHANGED <<input, poly, approx, prev, sub>>

GetItem ==
    \E start \in 0..len(poly) :
        \E stop \in start..len(poly) :
            /\ Idle
            /\ call' = Call("getitem", I(start), stop, FALSE)
            /\ sub' = getitem_slice(poly, start, stop)
            /\ res' = NoRes
            /\ UNCHANGED <<input, poly, approx, prev>>

Next == IndexAt \/ VertexAt \/ Divide \/ DivideByLength \/ GetItem \/ Return

Spec == Init /\ [][Next]_vars

(***************************************************************************)
(* SpecCurve: an ApproxParamT over a sampled curve and the calls on it.    *)
(***************************************************************************)
InitCurve ==
    \E segments \in 1..MaxSegments, max_t \in MaxTs :
        \E curve \in [1..(segments + 1) -> CurvePoints] :
            /\ input = [vertices |-> curve, close |-> FALSE, rel_tol |-> REL_TOL,
                        max_t |-> max_t, segments |-> segments]
            /\ approx = ApproxParamT(curve, max_t, segments)
            /\ poly = EmptyPolyline
            /\ call = NoCall
            /\ prev = NoPrev
            /\ res = NoRes
            /\ sub = EmptyPolyline

ParamT ==
    \E d \in Halves(length(approx.polyline)) :
        LET r == param_t(approx, d)
        IN  /\ Idle
            /\ call' = Call("param_t", d, 0, FALSE)
            /\ prev' = NoPrev
            /\ res' = Res(r.err, <<>>, <<>>, 0, r.val)
            /\ UNCHANGED <<input, poly, approx, sub>>

Distance ==
    \E t \in Params(approx) :
        LET r == distance(approx, t)
        IN  /\ Idle
            /\ call' = Call("distance", t, 0, FALSE)
            /\ prev' = NoPrev
            /\ res' = Res(r.err, <<>>, <<>>, 0, r.val)
            /\ UNCHANGED <<input, poly, approx, sub>>

\* param_t(distance(t)): param_t called with the value distance returned.
ParamTOfDistance ==
    /\ call.name = "distance"
    /\ res.err = ""
    /\ LET r == param_t(approx, res.ret)
       IN  /\ call' = Call("param_t", res.ret, 0, FALSE)
           /\ prev' = [name |-> "distance", d |-> call.d, ret |-> res.ret]
           /\ res' = Res(r.err, <<>>, <<>>, 0, r.val)
           /\ UNCHANGED <<input, poly, approx, sub>>

NextCurve == ParamT \/ Distance \/ ParamTOfDistance \/ Return

SpecCurve == InitCurve /\ [][NextCurve]_vars

(***************************************************************************)
(* Properties.  They are stated on the arrays of the polyline, not on the  *)
(* operators above.                                                        *)
(***************************************************************************)
\* The 0-based index of the first entry of ds that is >= d; Len(ds) if none.
LowerBound(ds, d) ==
    IF \E i \in 1..Len(ds) : RLe(d, ds[i])
    THEN (CHOOSE i \in 1..Len(ds) :
            RLe(d, ds[i]) /\ \A j \in 1..(i - 1) : RLt(ds[j], d)) - 1
    ELSE Len(ds)

LastVertex(p) == p.vertices[Len(p.vertices)]

\* Some vertex of p coincides with the vertex before it.
HasCoincident(p) ==
    \E i \in 2..Len(p.vertices) : p.distances[i] = p.distances[i - 1]

\* The last vertex of p coincides with the vertex before it.
TrailingCoincident(p) ==
    /\ Len(p.vertices) >= 2
    /\ p.distances[Len(p.vertices)] = p.distances[Len(p.vertices) - 1]

InRange(p, d) == RLe(Zero, d) /\ RLe(d, length(p))

\* The point the polyline has at distance d, 0 <= d <= length, N >= 1: the
\* first vertex when the lower bound index1 of d is 0, else the linear
\* interpolation between vertices index1 - 1 and index1.
PointOnPath(p, d) ==
    LET i1 == LowerBound(p.distances, d)
    IN  IF i1 = 0 THEN p.vertices[1]
        ELSE lerp(p.vertices[i1], p.vertices[i1 + 1],
                  RDiv(RSub(d, p.distances[i1]),
                       RSub(p.distances[i1 + 1], p.distances[i1])))

\* C1: for a polyline with at least 2 vertices and 0 <= d <= length,
\* vertex_at(d) returns the linear interpolation between vertices index1 - 1
\* and index1, index1 the lower bound of d, with
\* distances[index1 - 1] < d <= distances[index1] (vertices[0] when index1
\* is 0); vertex_at(0) is the first vertex and vertex_at(length) the last,
\* coincident consecutive vertices included.
C1_VertexAtInterpolates ==
    (call.name = "vertex_at" /\ len(poly) >= 2 /\ InRange(poly, call.d)) =>
        LET i1 == LowerBound(poly.distances, call.d)
        IN  /\ res.err = ""
            /\ Len(res.out) = 1
            /\ i1 < len(poly)
            /\ i1 > 0 => /\ RLt(poly.distances[i1], call.d)
                         /\ RLe(call.d, poly.distances[i1 + 1])
            /\ res.out[1] = PointOnPath(poly, call.d)
            /\ call.d = Zero => res.out[1] = poly.vertices[1]
            /\ call.d = length(poly) => res.out[1] = LastVertex(poly)

\* C1 witness: vertex_at(length) on a polyline of positive length whose last
\* two vertices coincide returned the last vertex.
C1_Witness ==
    /\ call.name = "vertex_at"
    /\ TrailingCoincident(poly)
    /\ RLt(Zero, length(poly))
    /\ call.d = length(poly)
    /\ res.err = ""
    /\ res.out = <<LastVertex(poly)>>

\* C2 as claimed: index_at(d) is the index of the first vertex whose
\* cumulative distance is >= d, 0 for d <= 0 and the last valid index for
\* d >= length, on every polyline.
C2_IndexAtLowerBoundEverywhere ==
    call.name = "index_at" =>
        /\ (\E i \in 1..len(poly) : RLe(call.d, poly.distances[i]))
              => res.idx = LowerBound(poly.distances, call.d)
        /\ RLe(call.d, Zero) => res.idx = 0
        /\ (RLt(Zero, call.d) /\ RLe(length(poly), call.d) /\ len(poly) > 0)
              => res.idx = len(poly) - 1

\* C2 amended: index_at(d) is 0 for d <= 0; otherwise the last valid index
\* for d >= length; otherwise (0 < d < length) the index of the first vertex
\* whose cumulative distance is >= d.
C2_IndexAtClamped ==
    call.name = "index_at" =>
        IF RLe(call.d, Zero) THEN res.idx = 0
        ELSE IF RLe(length(poly), call.d)
        THEN res.idx = (IF len(poly) > 0 THEN len(poly) - 1 ELSE 0)
        ELSE /\ res.idx = LowerBound(poly.distances, call.d)
             /\ res.idx > 0 /\ res.idx < len(poly)

\* C2 witness: index_at(length) on a polyline of positive length whose last
\* two vertices coincide returned the last index, which is not the first
\* index at that distance.
C2_Witness ==
    /\ call.name = "index_at"
    /\ TrailingCoincident(poly)
    /\ RLt(Zero, length(poly))
    /\ call.d = length(poly)
    /\ res.idx = len(poly) - 1
    /\ LowerBound(poly.distances, call.d) < res.idx

\* The arguments of the last call are valid apart from the vertex count.
ValidArguments ==
    \/ call.name = "vertex_at" /\ InRange(poly, call.d)
    \/ call.name = "divide" /\ call.n >= 2
    \/ call.name = "divide_by_length" /\ RLt(Zero, call.d)

\* C3 as claimed: vertex_at, divide and divide_by_length, called with valid
\* arguments on a polyline with fewer than 2 vertices, raise the "not enough
\* vertices" error and yield no point.
C3_FewVerticesRejected ==
    (ValidArguments /\ len(poly) < 2) =>
        /\ res.err = "ValueError: not enough vertices"
        /\ res.out = <<>>

\* The count evenly spaced distances over [0, length], both ends included.
EvenDistance(p, count, k) ==
    RDiv(RMul(I(k - 1), length(p)), I(count - 1))

StepCount(p, step) == Floor(RDiv(length(p), step)) + 1

C6_CloseAlwaysClosed ==
    input.close =>
        /\ is_closed(poly)
        /\ (input.vertices # <<>>
            /\ input.vertices[1] = input.vertices[Len(input.vertices)])
              => poly.vertices = input.vertices

\* C6 amended: every polyline built with close = True from more than 2
\* vertices is closed; building with close = True from vertices whose first
\* and last are already equal (within rel_tol) appends nothing, and
\* otherwise at most the first vertex is appended.
C6_CloseMoreThanTwo ==
    input.close =>
        /\ Len(input.vertices) > 2 => is_closed(poly)
        /\ (input.vertices # <<>>
            /\ isclose(input.vertices[1], input.vertices[Len(input.vertices)],
                       input.rel_tol))
              => poly.vertices = input.vertices
        /\ \/ poly.vertices = input.vertices
           \/ poly.vertices = Append(input.vertices, input.vertices[1])

\* C6 witness: closing 3 vertices whose ends differ appended the first
\* vertex, and the polyline is closed.
C6_Witness ==
    /\ input.close
    /\ Len(input.vertices) = 3
    /\ input.vertices[1] # input.vertices[3]
    /\ len(poly) = 4
    /\ LastVertex(poly) = input.vertices[1]
    /\ is_closed(poly)

\* The arrays of a polyline p built from the vertices vs: as many distances
\* as vertices, the first 0, each the one before plus the length of the
\* segment, hence non-decreasing.
ArraysConsistent(p) ==
    /\ Len(p.distances) = Len(p.vertices)
    /\ p.vertices # <<>> => p.distances[1] = Zero
    /\ \A i \in 2..Len(p.vertices) :
          /\ p.distances[i] =
                RAdd(p.distances[i - 1],
                     magnitude(VSub(p.vertices[i], p.vertices[i - 1])))
          /\ RLe(p.distances[i - 1], p.distances[i])
    /\ RLe(Zero, length(p))

\* C9: after construction (with or without close) and after any slice, the
\* arrays of the polyline, and of the slice, are consistent; the slice holds
\* the vertices start..stop-1 with distances counted from its own first
\* vertex, and the sliced polyline is as it was constructed.
C9_DistancesInvariant ==
    /\ ArraysConsistent(poly)
    /\ ArraysConsistent(approx.polyline)
    /\ call.name = "getitem" =>
          /\ ArraysConsistent(sub)
          /\ sub.vertices = SubSeq(poly.vertices, call.d[1] + 1, call.n)
          /\ sub.rel_tol = poly.rel_tol
          /\ poly = ConstructionPolyline(input.vertices, input.close, input.rel_tol)

\* C9 witness: a slice of 2 or more vertices, not starting at the first
\* vertex of a closed polyline, whose distances differ from the original's
\* at the same vertices.
C9_Witness ==
    /\ call.name = "getitem"
    /\ input.close
    /\ len(poly) = 4
    /\ call.d[1] >= 1
    /\ Len(sub.vertices) >= 2
    /\ sub.distances[1] = Zero
    /\ sub.distances[2] # poly.distances[call.d[1] + 2]
    /\ RLt(Zero, sub.distances[2])

\* C10: no call of _vertex_at made by vertex_at, divide or divide_by_length
\* raises the internal interpolation error; whenever the lower bound index1
\* of the distance is > 0, distances[index1 - 1] < distance <=
\* distances[index1] already holds, the skip loop walks back over no vertex,
\* and the interpolation divides by a positive length.
C10_NoInternalError ==
    /\ res.err # "ArithmeticError"
    /\ \A k \in 1..Len(res.trace) :
          LET e == res.trace[k]
              i1 == LowerBound(poly.distances, e.d)
          IN  /\ e.err # "ArithmeticError"
              /\ (i1 > 0 /\ len(poly) > 0) =>
                    /\ i1 < len(poly)
                    /\ e.err = ""
                    /\ e.index1 = i1
                    /\ e.index0 = i1 - 1
                    /\ e.walked = 0
                    /\ RLt(poly.distances[i1], e.d)
                    /\ RLe(e.d, poly.distances[i1 + 1])

\* C10 witness: an interpolation whose bracket follows a zero-length segment:
\* vertices index1 - 2 and index1 - 1 coincide.
C10_Witness ==
    \E k \in 1..Len(res.trace) :
        /\ res.trace[k].err = ""
        /\ res.trace[k].index1 >= 2
        /\ poly.distances[res.trace[k].index1] =
              poly.distances[res.trace[k].index1 - 1]

\* The internal polyline has a zero-length sample segment.
HasZeroSegment == HasCoincident(approx.polyline)

\* The internal polyline has a segment of positive length that is not
\* longer than the 1e-12 of param_t.
HasTinySegment ==
    \E i \in 2..Len(approx.polyline.vertices) :
        LET d0 == RSub(approx.polyline.distances[i], approx.polyline.distances[i - 1])
        IN  RLt(Zero, d0) /\ RLe(d0, D0_MIN)

\* C7: on every sampled curve (max_t > 0, 1 or more segments, zero-length
\* sample segments included) param_t(d) never exceeds max_t, is max_t for
\* every d >= length, and is monotonic: param_t(d1) <= param_t(d) for every
\* d1 <= d.
C7_ParamTMonotonic ==
    call.name = "param_t" =>
        /\ res.err = ""
        /\ RLe(res.ret, approx.max_t)
        /\ RLe(length(approx.polyline), call.d) => res.ret = approx.max_t
        /\ \A d1 \in Halves(length(approx.polyline)) :
              RLe(d1, call.d) =>
                  /\ param_t(approx, d1).err = ""
                  /\ RLe(param_t(approx, d1).val, res.ret)

\* C7 witness: param_t of a distance inside a curve with a zero-length
\* sample segment returned a parameter strictly between 0 and max_t.
C7_Witness ==
    /\ call.name = "param_t"
    /\ HasZeroSegment
    /\ RLt(Zero, call.d) /\ RLt(call.d, length(approx.polyline))
    /\ RLt(Zero, res.ret) /\ RLt(res.ret, approx.max_t)

\* param_t was called with the value distance(t) returned, 0 <= t <= max_t.
RoundTrip ==
    /\ call.name = "param_t"
    /\ prev.name = "distance"
    /\ call.d = prev.ret
    /\ RLe(Zero, prev.d) /\ RLe(prev.d, approx.max_t)

====
